---- MODULE Spec2Model ----
(***************************************************************************)
(* The generation evaluator main() of flappy_bird.py, with the kinematics  *)
(* of Bird, Pipe and Ground it drives.                                     *)
(*                                                                         *)
(* Units.  Vertical positions, velocities and displacements are kept in    *)
(* tenths of a pixel (y = 350 is 3500, velocity -10.5 is -105, the 1.5 of  *)
(* the gravity term is 15), fitness in tenths of a point (+0.1 is 1, +5 is *)
(* 50, -1 is -10).  Horizontal positions are whole pixels.                 *)
(*                                                                         *)
(* Python lists are sequences indexed from 1; the index x of               *)
(* enumerate(birds) is the position i of the model minus one.  Objects     *)
(* (birds, networks, genomes, pipes) carry an id that stands for their     *)
(* identity.                                                               *)
(***************************************************************************)
EXTENDS Integers, Sequences, FiniteSets

\* ---------------------------------------------------------------- bounds
\* Largest population handed to main().
MaxBirds == 2
\* Ticks explored by the general specification.
MaxTicks == 100
\* Ticks explored by the score-cap scenario (the cap is reached well before).
CapTicks == 12000
\* Calls explored by the kinematics specification.
MaxMoves == 14
\* Invocations of main() explored in a run (population.run allows 50).
MaxGenerations == 2

\* ------------------------------------------------------ program constants
WINDOW_WIDTH == 500
BIRD_X == 230
BIRD_Y == 3500
GROUND_Y == 7300
GROUND_VELOCITY == 5
\* BASE_IMAGE.get_width(): base.png (336 px) after scale2x.
GROUND_WIDTH == 672
FIRST_PIPE_X == 700
NEXT_PIPE_X == 600
GAP == 200
PIPE_VELOCITY == 5
\* PIPE_IMAGE: pipe.png (52 x 320) after scale2x.
PIPE_WIDTH == 104
PIPE_HEIGHT == 640
\* BIRD_IMAGES: bird*.png (34 x 24) after scale2x.
BIRD_WIDTH == 68
BIRD_HEIGHT == 48
JUMP_VELOCITY == -105
GRAVITY == 15
MAX_DISPLACEMENT == 160
RISE_BOOST == 20
TILT_WINDOW == 500
MAX_ROTATION == 25
ROTATION_VELOCITY == 20
MIN_TILT == -90
ALIVE_REWARD == 1
PASS_REWARD == 50
HIT_PENALTY == 10
JUMP_THRESHOLD == 5
SCORE_CAP == 150

\* random.randrange(50, 450) of Pipe.set_height: the whole range, and the
\* values the model draws from it (both ends and a middle one).
HeightRange == 50..449
Heights == {50, 300, 449}

\* Controllers.  neat.nn.FeedForwardNetwork is a function of the observation
\* (y, |y - height|, |y - bottom|); the model takes four of them.
Kinds == {"never", "always", "track", "skim"}

\* Sprite heights of the never-jump scenario (bird.image.get_height()).
SpriteHeights == {0, 48, 200, 400}

VARIABLES
    pc,            \* position in main(): head, move, scan, spawn, bounds, cap, done, quit, kin
    birds,         \* list of Bird
    networks,      \* list of networks, parallel to birds
    ge,            \* list of genomes (ids), parallel to birds
    fitness,       \* genome.fitness, by genome id
    pipes,         \* list of Pipe
    nPipes,        \* Pipe objects constructed so far (the next pipe's id is nPipes + 1)
    ground,        \* Ground: x_start, x_end, y
    score,
    run,
    pipe_index,
    add_pipe,
    pipe_removal,  \* ids of the pipes collected for removal in this tick
    ticks,         \* iterations of the main loop that passed the head
    elim,          \* by bird id: how it left the lists (none, pipe, ground, top)
    overlap,       \* <<pipe id, bird id>> pairs whose masks overlap in the last scan
    nPassed,       \* times a pipe's passed flag went from False to True
    heights,       \* values random.randrange can return in this run
    imgH,          \* bird.image.get_height()
    horizon,       \* ticks explored in this run
    GENERATION     \* the module's generation counter

vars == <<pc, birds, networks, ge, fitness, pipes, nPipes, ground, score, run,
          pipe_index, add_pipe, pipe_removal, ticks, elim, overlap, nPassed,
          heights, imgH, horizon, GENERATION>>

\* ------------------------------------------------------------------ lists
\* list.pop(x), with i = x + 1.
Pop(s, i) == SubSeq(s, 1, i - 1) \o SubSeq(s, i + 1, Len(s))

Abs(n) == IF n < 0 THEN -n ELSE n

\* Python's round() of a value in tenths: to the nearest integer, ties to even.
Round(t) ==
    LET q == t \div 10
        r == t % 10
    IN  IF r < 5 THEN q
        ELSE IF r > 5 THEN q + 1
        ELSE IF q % 2 = 0 THEN q ELSE q + 1

\* ------------------------------------------------------------------- Bird
NewBird(id) ==
    [id |-> id, x |-> BIRD_X, y |-> BIRD_Y, tilt |-> 0, tick_count |-> 0,
     velocity |-> 0, height |-> BIRD_Y]

\* Bird.jump, lines 59-63.  (JumpKeepTicks: a jump that forgets to reset
\* tick_count.)
JumpKeepTicks(b) == [b EXCEPT !.velocity = JUMP_VELOCITY, !.height = b.y]

Jump(b) == [b EXCEPT !.velocity = JUMP_VELOCITY, !.tick_count = 0, !.height = b.y]

\* Bird.move, lines 71-78: the displacement of the tick with tick_count = t.
\* (Faulty variants: DisplacementNoClamp drops the upper limit of line 74,
\* DisplacementNoGravity the quadratic term of line 71.)
DisplacementNoClamp(velocity, t) ==
    LET d == velocity * t + GRAVITY * t * t
    IN  IF d < 0 THEN d - RISE_BOOST ELSE d

DisplacementNoGravity(velocity, t) ==
    LET d == velocity * t
    IN  IF d < 0 THEN d - RISE_BOOST ELSE d

Displacement(velocity, t) ==
    LET d0 == velocity * t + GRAVITY * t * t
        d1 == IF d0 >= MAX_DISPLACEMENT THEN MAX_DISPLACEMENT ELSE d0
    IN  IF d1 < 0 THEN d1 - RISE_BOOST ELSE d1

Move(b) ==
    LET t == b.tick_count + 1
        d == Displacement(b.velocity, t)
        y == b.y + d
        tilt == IF d < 0 \/ y < b.height + TILT_WINDOW
                THEN (IF b.tilt < MAX_ROTATION THEN MAX_ROTATION ELSE b.tilt)
                ELSE (IF b.tilt > MIN_TILT THEN b.tilt - ROTATION_VELOCITY ELSE b.tilt)
    IN  [b EXCEPT !.tick_count = t, !.y = y, !.tilt = tilt]

\* ------------------------------------------------------------------- Pipe
\* Pipe.__init__ with set_height.  (NewPipeInstanceGap: bottom computed from
\* the unused instance attribute self.gap = 100 of line 134.)
NewPipeInstanceGap(id, x, h) ==
    [id |-> id, x |-> x, height |-> h, top |-> h - PIPE_HEIGHT, bottom |-> h + 100,
     passed |-> FALSE]

NewPipe(id, x, h) ==
    [id |-> id, x |-> x, height |-> h, top |-> h - PIPE_HEIGHT, bottom |-> h + GAP,
     passed |-> FALSE]

PipeMove(p) == [p EXCEPT !.x = p.x - PIPE_VELOCITY]

\* Pipe.collide compares pixel masks of sprites that are not part of the
\* source.  Mask.overlap can find a common pixel only where the rectangles
\* of the two masks intersect: MayCollide is that necessary condition, and
\* within it the outcome is an input of the scan.
MayCollide(p, b, h) ==
    LET dx == p.x - b.x
        ry == Round(b.y)
        dyTop == p.top - ry
        dyBottom == p.bottom - ry
    IN  /\ dx < BIRD_WIDTH
        /\ dx > -PIPE_WIDTH
        /\ \/ (dyTop < h /\ dyTop > -PIPE_HEIGHT)
           \/ (dyBottom < h /\ dyBottom > -PIPE_HEIGHT)

\* ----------------------------------------------------------------- Ground
NewGround(y) == [y |-> y, x_start |-> 0, x_end |-> GROUND_WIDTH]

\* Ground.move.  (GroundMoveStale: the wrap computed from the other
\* segment's position before its own move.)
GroundMoveStale(g) ==
    LET s1 == g.x_start - GROUND_VELOCITY
        e1 == g.x_end - GROUND_VELOCITY
        s2 == IF s1 + GROUND_WIDTH < 0 THEN g.x_end + GROUND_WIDTH ELSE s1
        e2 == IF e1 + GROUND_WIDTH < 0 THEN g.x_start + GROUND_WIDTH ELSE e1
    IN  [g EXCEPT !.x_start = s2, !.x_end = e2]

GroundMove(g) ==
    LET s1 == g.x_start - GROUND_VELOCITY
        e1 == g.x_end - GROUND_VELOCITY
        s2 == IF s1 + GROUND_WIDTH < 0 THEN e1 + GROUND_WIDTH ELSE s1
        e2 == IF e1 + GROUND_WIDTH < 0 THEN s2 + GROUND_WIDTH ELSE e1
    IN  [g EXCEPT !.x_start = s2, !.x_end = e2]

\* --------------------------------------------------------------- networks
\* The observation handed to networks[x].activate, lines 308-309.
Observation(b, p) ==
    <<b.y, Abs(b.y - 10 * p.height), Abs(b.y - 10 * p.bottom)>>

\* Distance above the lower pipe (tenths) below which a gap-seeking
\* controller jumps.
Margin(kind) == IF kind = "track" THEN 900 ELSE 300

\* output[0] of the controller, in tenths.  "never" and "always" are the
\* constant controllers; "track" and "skim" jump when the bird is less than
\* Margin above the lower pipe's top edge, or below it.
Activate(net, obs) ==
    CASE net.kind = "never" -> 0
      [] net.kind = "always" -> 10
      [] OTHER ->
            IF \/ obs[3] < Margin(net.kind)
               \/ (obs[2] >= 10 * GAP /\ obs[3] < obs[2])
            THEN 10 ELSE 0

\* ------------------------------------------------------- main: loop head
\* Lines 295-298.  (PipeIndexLeftEdge: the test against the pipe's left edge.)
PipeIndexLeftEdge(bs, ps) ==
    IF Len(ps) > 1 /\ bs[1].x > ps[1].x THEN 1 ELSE 0

PipeIndex(bs, ps) ==
    IF Len(ps) > 1 /\ bs[1].x > ps[1].x + PIPE_WIDTH THEN 1 ELSE 0

\* Lines 289-293: a QUIT event ends the process.
Quit ==
    /\ pc = "head"
    /\ pc' = "quit"
    /\ run' = FALSE
    /\ UNCHANGED <<birds, networks, ge, fitness, pipes, nPipes, ground, score,
                   pipe_index, add_pipe, pipe_removal, ticks, elim, overlap,
                   nPassed, heights, imgH, horizon, GENERATION>>

\* Lines 295-302.  (LoopHeadNoExit: the loop head without the else branch.)
LoopHeadNoExit ==
    /\ pc = "head"
    /\ ticks < horizon
    /\ pipe_index' = IF Len(birds) > 0 THEN PipeIndex(birds, pipes) ELSE 0
    /\ pc' = "move"
    /\ ticks' = ticks + 1
    /\ UNCHANGED <<birds, networks, ge, fitness, pipes, nPipes, ground, score,
                   run, add_pipe, pipe_removal, elim, overlap, nPassed, heights,
                   imgH, horizon, GENERATION>>

LoopHead ==
    /\ pc = "head"
    /\ (Len(birds) > 0) => (ticks < horizon)
    /\ IF Len(birds) > 0
       THEN /\ pipe_index' = PipeIndex(birds, pipes)
            /\ pc' = "move"
            /\ ticks' = ticks + 1
            /\ run' = run
       ELSE /\ pipe_index' = 0
            /\ pc' = "done"
            /\ ticks' = ticks
            /\ run' = FALSE
    /\ UNCHANGED <<birds, networks, ge, fitness, pipes, nPipes, ground, score,
                   add_pipe, pipe_removal, elim, overlap, nPassed, heights,
                   imgH, horizon, GENERATION>>

\* ------------------------------------------------------ main: lines 304-312
\* One iteration of the loop over enumerate(birds), at position i.
\* (StepBirdFirstGenome: the reward goes to ge[0] instead of ge[x].)
StepBirdFirstGenome(st, i, p) ==
    LET moved == Move(st.birds[i])
        out == Activate(st.networks[i], Observation(moved, p))
        after == IF out > JUMP_THRESHOLD THEN Jump(moved) ELSE moved
    IN  [st EXCEPT !.birds[i] = after,
                   !.fitness[st.ge[1]] = @ + ALIVE_REWARD]

StepBird(st, i, p) ==
    LET moved == Move(st.birds[i])
        out == Activate(st.networks[i], Observation(moved, p))
        after == IF out > JUMP_THRESHOLD THEN Jump(moved) ELSE moved
    IN  [st EXCEPT !.birds[i] = after,
                   !.fitness[st.ge[i]] = @ + ALIVE_REWARD]

RECURSIVE MoveLoop(_, _, _)
MoveLoop(st, i, p) ==
    IF i > Len(st.birds) THEN st ELSE MoveLoop(StepBird(st, i, p), i + 1, p)

MoveBirds ==
    /\ pc = "move"
    /\ LET st == MoveLoop([birds |-> birds, networks |-> networks, ge |-> ge,
                           fitness |-> fitness], 1, pipes[pipe_index + 1])
       IN  /\ birds' = st.birds
           /\ fitness' = st.fitness
    /\ pc' = "scan"
    /\ UNCHANGED <<networks, ge, pipes, nPipes, ground, score, run, pipe_index,
                   add_pipe, pipe_removal, ticks, elim, overlap, nPassed,
                   heights, imgH, horizon, GENERATION>>

\* ------------------------------------------------------ main: lines 314-335
\* Lines 321-324: the penalty of the genome at position i, then the three pops.
\* (PopTripleNetworkFirst: networks.pop(0) instead of networks.pop(x).)
PopTripleNetworkFirst(st, i) ==
    [st EXCEPT !.birds = Pop(@, i), !.networks = Pop(@, 1), !.ge = Pop(@, i)]

PopTriple(st, i) ==
    [st EXCEPT !.birds = Pop(@, i), !.networks = Pop(@, i), !.ge = Pop(@, i)]

Penalise(st, i) == [st EXCEPT !.fitness[st.ge[i]] = @ - HIT_PENALTY]

\* Lines 327-329, for the pipe being scanned (its passed flag is st.passed).
\* (MarkPassedAlways: the test without `not pipe.passed`; MarkPassedNoSpawn:
\* the flag set without add_pipe = True.)
MarkPassedNoSpawn(st, p, b) ==
    IF ~st.passed /\ p.x < b.x
    THEN [st EXCEPT !.passed = TRUE, !.nPassed = @ + 1]
    ELSE st

MarkPassedAlways(st, p, b) ==
    IF p.x < b.x
    THEN [st EXCEPT !.passed = TRUE, !.add_pipe = TRUE,
                    !.nPassed = IF st.passed THEN @ ELSE @ + 1]
    ELSE st

MarkPassed(st, p, b) ==
    IF ~st.passed /\ p.x < b.x
    THEN [st EXCEPT !.passed = TRUE, !.add_pipe = TRUE, !.nPassed = @ + 1]
    ELSE st

\* One iteration of the inner loop: bird stays bound to the element read at
\* position i even after it was popped.
ScanBird(st, i, p, hits) ==
    LET b == st.birds[i]
        s1 == IF <<p.id, b.id>> \in hits
              THEN [PopTriple(Penalise(st, i), i) EXCEPT !.elim[b.id] = "pipe"]
              ELSE st
    IN  MarkPassed(s1, p, b)

\* for x, bird in enumerate(birds): the list iterator reads position i of
\* the list as it is now and stops when i is past its end.
RECURSIVE ScanBirds(_, _, _, _)
ScanBirds(st, i, p, hits) ==
    IF i > Len(st.birds) THEN st
    ELSE ScanBirds(ScanBird(st, i, p, hits), i + 1, p, hits)

\* One iteration of the loop over pipes, lines 316-335.
ScanPipe(st, j, hits) ==
    LET p == st.pipes[j]
        s1 == ScanBirds([st EXCEPT !.passed = p.passed], 1, p, hits)
        gone == IF p.x + PIPE_WIDTH < 0 THEN {p.id} ELSE {}
    IN  [s1 EXCEPT !.pipes[j] = PipeMove([p EXCEPT !.passed = s1.passed]),
                   !.pipe_removal = @ \cup gone]

RECURSIVE ScanPipesLoop(_, _, _)
ScanPipesLoop(st, j, hits) ==
    IF j > Len(st.pipes) THEN st
    ELSE ScanPipesLoop(ScanPipe(st, j, hits), j + 1, hits)

\* The pairs whose masks can overlap during this scan: a pipe is tested at
\* the x it has before its own move, the birds do not move.
CanCollide ==
    {pb \in {p.id : p \in {pipes[j] : j \in DOMAIN pipes}}
              \X {b.id : b \in {birds[i] : i \in DOMAIN birds}} :
        \E j \in DOMAIN pipes, i \in DOMAIN birds :
            /\ pipes[j].id = pb[1]
            /\ birds[i].id = pb[2]
            /\ MayCollide(pipes[j], birds[i], imgH)}

ScanPipes ==
    /\ pc = "scan"
    /\ \E hits \in SUBSET CanCollide :
        LET st == ScanPipesLoop(
                    [birds |-> birds, networks |-> networks, ge |-> ge,
                     fitness |-> fitness, pipes |-> pipes, elim |-> elim,
                     passed |-> FALSE, add_pipe |-> FALSE, pipe_removal |-> {},
                     nPassed |-> nPassed], 1, hits)
        IN  /\ birds' = st.birds
            /\ networks' = st.networks
            /\ ge' = st.ge
            /\ fitness' = st.fitness
            /\ pipes' = st.pipes
            /\ elim' = st.elim
            /\ add_pipe' = st.add_pipe
            /\ pipe_removal' = st.pipe_removal
            /\ nPassed' = st.nPassed
            /\ overlap' = hits
    /\ pc' = "spawn"
    /\ UNCHANGED <<nPipes, ground, score, run, pipe_index, ticks, heights, imgH,
                   horizon, GENERATION>>

\* ------------------------------------------------------ main: lines 337-346
\* Lines 340-341.  (RewardEveryGenome: the bonus given to every genome of
\* the population, `for _, genome in genomes`, instead of those in ge.)
RewardEveryGenome(f, g, i) == [id \in DOMAIN f |-> f[id] + PASS_REWARD]

RECURSIVE RewardAll(_, _, _)
RewardAll(f, g, i) ==
    IF i > Len(g) THEN f
    ELSE RewardAll([f EXCEPT ![g[i]] = @ + PASS_REWARD], g, i + 1)

\* pipes.remove(pipe) for every pipe of pipe_removal.  (RemoveNoPipes: the
\* removal loop left out.)
RemoveNoPipes(ps, gone) == ps

RemovePipes(ps, gone) == SelectSeq(ps, LAMBDA p : p.id \notin gone)

SpawnAndRetire ==
    /\ pc = "spawn"
    /\ IF add_pipe
       THEN \E h \in heights :
               /\ score' = score + 1
               /\ fitness' = RewardAll(fitness, ge, 1)
               /\ pipes' = RemovePipes(
                              Append(pipes, NewPipe(nPipes + 1, NEXT_PIPE_X, h)),
                              pipe_removal)
               /\ nPipes' = nPipes + 1
       ELSE /\ pipes' = RemovePipes(pipes, pipe_removal)
            /\ UNCHANGED <<score, fitness, nPipes>>
    /\ pc' = "bounds"
    /\ UNCHANGED <<birds, networks, ge, ground, run, pipe_index, add_pipe,
                   pipe_removal, ticks, elim, overlap, nPassed, heights, imgH,
                   horizon, GENERATION>>

\* ------------------------------------------------------ main: lines 348-353
OutOfBounds(b, h) == b.y + 10 * h >= GROUND_Y \/ b.y < 0

BoundsBird(st, i, h) ==
    LET b == st.birds[i]
    IN  IF OutOfBounds(b, h)
        THEN [PopTriple(st, i) EXCEPT
                 !.elim[b.id] = IF b.y + 10 * h >= GROUND_Y THEN "ground" ELSE "top"]
        ELSE st

RECURSIVE BoundsLoop(_, _, _)
BoundsLoop(st, i, h) ==
    IF i > Len(st.birds) THEN st
    ELSE BoundsLoop(BoundsBird(st, i, h), i + 1, h)

BoundsScan ==
    /\ pc = "bounds"
    /\ LET st == BoundsLoop([birds |-> birds, networks |-> networks, ge |-> ge,
                             elim |-> elim], 1, imgH)
       IN  /\ birds' = st.birds
           /\ networks' = st.networks
           /\ ge' = st.ge
           /\ elim' = st.elim
    /\ pc' = "cap"
    /\ UNCHANGED <<fitness, pipes, nPipes, ground, score, run, pipe_index,
                   add_pipe, pipe_removal, ticks, overlap, nPassed, heights, imgH,
                   horizon, GENERATION>>

\* ------------------------------------------------------ main: lines 355-361
\* (CapReachedEarly: >= in place of >.)  draw_window only renders: it
\* changes the animation frame of a bird, never its position or the lists.
CapReachedEarly(s) == s >= SCORE_CAP

CapReached(s) == s > SCORE_CAP

CapCheck ==
    /\ pc = "cap"
    /\ IF CapReached(score)
       THEN /\ run' = FALSE
            /\ pc' = "done"
            /\ ground' = ground
       ELSE /\ run' = run
            /\ pc' = "head"
            /\ ground' = GroundMove(ground)
    /\ UNCHANGED <<birds, networks, ge, fitness, pipes, nPipes, score,
                   pipe_index, add_pipe, pipe_removal, ticks, elim, overlap,
                   nPassed, heights, imgH, horizon, GENERATION>>

\* ---------------------------------------------------------- construction
RECURSIVE AllSeqs(_, _)
AllSeqs(S, n) ==
    IF n = 0 THEN {<<>>}
    ELSE {Append(s, x) : s \in AllSeqs(S, n - 1), x \in S}

\* The state main() builds in lines 265-284 for a population whose
\* controllers are kinds[1..n], with first pipe height h.
Construct(kinds, h, hs, ih, hz) ==
    /\ pc = "head"
    /\ birds = [i \in DOMAIN kinds |-> NewBird(i)]
    /\ networks = [i \in DOMAIN kinds |-> [id |-> i, kind |-> kinds[i]]]
    /\ ge = [i \in DOMAIN kinds |-> i]
    /\ fitness = [i \in DOMAIN kinds |-> 0]
    /\ pipes = <<NewPipe(1, FIRST_PIPE_X, h)>>
    /\ nPipes = 1
    /\ ground = NewGround(GROUND_Y)
    /\ score = 0
    /\ run = TRUE
    /\ pipe_index = 0
    /\ add_pipe = FALSE
    /\ pipe_removal = {}
    /\ ticks = 0
    /\ elim = [i \in DOMAIN kinds |-> "none"]
    /\ overlap = {}
    /\ nPassed = 0
    /\ heights = hs
    /\ imgH = ih
    /\ horizon = hz
    /\ GENERATION = 1

Init ==
    \E n \in 0..MaxBirds : \E kinds \in AllSeqs({"never", "always", "skim"}, n) :
        \E h \in Heights : Construct(kinds, h, Heights, BIRD_HEIGHT, MaxTicks)

Next ==
    \/ Quit
    \/ LoopHead
    \/ MoveBirds
    \/ ScanPipes
    \/ SpawnAndRetire
    \/ BoundsScan
    \/ CapCheck

Spec == Init /\ [][Next]_vars

\* Score-cap scenario: gap-tracking controllers and pipes of one height, run
\* until the loop ends.
CapHeights == {300}

InitCap ==
    \E n \in 1..MaxBirds : \E kinds \in AllSeqs({"track", "never"}, n) :
        \E h \in CapHeights : Construct(kinds, h, CapHeights, BIRD_HEIGHT, CapTicks)

SpecCap == InitCap /\ [][Next]_vars

\* Never-jump scenario: one bird, controller output always 0, any sprite height.
InitNever ==
    \E h \in Heights : \E ih \in SpriteHeights :
        Construct(<<"never">>, h, Heights, ih, MaxTicks)

SpecNever == InitNever /\ [][Next]_vars

\* Always-jump scenario: one bird, controller output always above 0.5.
InitAlways ==
    \E h \in Heights : Construct(<<"always">>, h, Heights, BIRD_HEIGHT, MaxTicks)

SpecAlways == InitAlways /\ [][Next]_vars

\* Whole trials: one bird with any of the controllers, alone or behind a
\* bird that never jumps, every collision outcome, pipes of one of three
\* heights, no QUIT event.  The loop is one sequential thread, so a step
\* that can be taken is taken.
InitTrial ==
    \E k \in Kinds : \E kinds \in {<<k>>, <<"never", k>>} : \E h \in Heights :
        Construct(kinds, h, {h}, BIRD_HEIGHT, CapTicks)

NextTrial ==
    \/ LoopHead
    \/ MoveBirds
    \/ ScanPipes
    \/ SpawnAndRetire
    \/ BoundsScan
    \/ CapCheck

SpecTrial == InitTrial /\ [][NextTrial]_vars /\ WF_vars(NextTrial)

\* ------------------------------------------------------------ generations
\* population.run(main, 50) calls main() again after it has returned, with
\* the genomes of the next population; main() adds one to GENERATION and
\* constructs its lists, pipes, ground and score anew.
\* (NextGenerationSame: the counter left as it was.)
NextGenerationSame(g) == g

NextGeneration(g) == g + 1

StartGeneration ==
    /\ pc = "done"
    /\ GENERATION < MaxGenerations
    /\ \E n \in 0..MaxBirds : \E kinds \in AllSeqs({"track", "never"}, n) :
           \E h \in heights :
               /\ pc' = "head"
               /\ birds' = [i \in DOMAIN kinds |-> NewBird(i)]
               /\ networks' = [i \in DOMAIN kinds |-> [id |-> i, kind |-> kinds[i]]]
               /\ ge' = [i \in DOMAIN kinds |-> i]
               /\ fitness' = [i \in DOMAIN kinds |-> 0]
               /\ pipes' = <<NewPipe(1, FIRST_PIPE_X, h)>>
               /\ elim' = [i \in DOMAIN kinds |-> "none"]
    /\ GENERATION' = NextGeneration(GENERATION)
    /\ nPipes' = 1
    /\ ground' = NewGround(GROUND_Y)
    /\ score' = 0
    /\ run' = TRUE
    /\ pipe_index' = 0
    /\ add_pipe' = FALSE
    /\ pipe_removal' = {}
    /\ ticks' = 0
    /\ overlap' = {}
    /\ nPassed' = 0
    /\ UNCHANGED <<heights, imgH, horizon>>

InitGen ==
    \E n \in 0..MaxBirds : \E kinds \in AllSeqs({"track", "never"}, n) :
        \E h \in CapHeights : Construct(kinds, h, CapHeights, BIRD_HEIGHT, CapTicks)

NextGen == Next \/ StartGeneration

SpecGen == InitGen /\ [][NextGen]_vars

\* ------------------------------------------------------------- kinematics
\* One Bird driven by arbitrary sequences of move() and jump() calls.
InitKin ==
    /\ pc = "kin"
    /\ birds = <<NewBird(1)>>
    /\ networks = <<>>
    /\ ge = <<>>
    /\ fitness = <<>>
    /\ pipes = <<>>
    /\ nPipes = 0
    /\ ground = NewGround(GROUND_Y)
    /\ score = 0
    /\ run = TRUE
    /\ pipe_index = 0
    /\ add_pipe = FALSE
    /\ pipe_removal = {}
    /\ ticks = 0
    /\ elim = <<"none">>
    /\ overlap = {}
    /\ nPassed = 0
    /\ heights = {}
    /\ imgH = BIRD_HEIGHT
    /\ horizon = MaxMoves
    /\ GENERATION = 0

KinMove ==
    /\ pc = "kin"
    /\ ticks < horizon
    /\ birds' = <<Move(birds[1])>>
    /\ ticks' = ticks + 1
    /\ UNCHANGED <<pc, networks, ge, fitness, pipes, nPipes, ground, score, run,
                   pipe_index, add_pipe, pipe_removal, elim, overlap, nPassed,
                   heights, imgH, horizon, GENERATION>>

KinJump ==
    /\ pc = "kin"
    /\ ticks < horizon
    /\ birds' = <<Jump(birds[1])>>
    /\ ticks' = ticks + 1
    /\ UNCHANGED <<pc, networks, ge, fitness, pipes, nPipes, ground, score, run,
                   pipe_index, add_pipe, pipe_removal, elim, overlap, nPassed,
                   heights, imgH, horizon, GENERATION>>

NextKin == KinMove \/ KinJump

SpecKin == InitKin /\ [][NextKin]_vars

\* ================================================================= claims
Live == {birds[i].id : i \in DOMAIN birds}

\* C1: the lists birds, networks and ge always have the same length, and
\* position i of each holds the same participant: bird i, its network and
\* its genome; the participants in the lists are exactly those not removed.
C1_Aligned ==
    /\ Len(birds) = Len(networks)
    /\ Len(networks) = Len(ge)
    /\ \A i \in DOMAIN birds :
          /\ birds[i].id = networks[i].id
          /\ birds[i].id = ge[i]
    /\ Live = {id \in DOMAIN elim : elim[id] = "none"}

\* The first of two birds was removed by a pipe and the second moved up to
\* position 1 with its network and genome.
C1_Witness ==
    /\ Len(elim) = 2
    /\ elim[1] = "pipe"
    /\ Len(birds) = 1
    /\ birds[1].id = 2

\* C2: after the pipe scan of a tick no bird whose mask overlapped a pipe
\* in that scan is still in the list.
C2_OverlappingRemoved ==
    pc = "spawn" => \A pb \in overlap : pb[2] \notin Live

\* C3: after the bounds scan of a tick no bird left in the list is on or
\* below the ground line or above the top of the window.
C3_NoneOutOfBounds ==
    pc = "cap" => \A i \in DOMAIN birds : ~OutOfBounds(birds[i], imgH)

\* C4: a step that removes birds (by a pipe or by the bounds) lowers the
\* fitness of each removed bird's genome by 1 and changes no other fitness.
C4_PenaltyOnRemoval ==
    [][(\E id \in DOMAIN elim : elim[id] = "none" /\ elim'[id] # "none")
        => \A id \in DOMAIN elim :
              fitness'[id] = IF elim[id] = "none" /\ elim'[id] # "none"
                             THEN fitness[id] - HIT_PENALTY
                             ELSE fitness[id]]_vars

\* C5: a pipe's passed flag never goes back to False; outside the span
\* between the scan and the spawn of one tick the score is the number of
\* times a passed flag was set; the score only grows by 1, and each time
\* exactly one pipe is constructed, at x = 600, and appended.
C5_Step ==
    /\ \A j \in DOMAIN pipes : \A k \in DOMAIN pipes' :
          (pipes[j].id = pipes'[k].id /\ pipes[j].passed) => pipes'[k].passed
    /\ (pc' # "spawn") => (score' = nPassed')
    /\ (score' # score) =>
          /\ score' = score + 1
          /\ nPipes' = nPipes + 1
          /\ pipes'[Len(pipes')] = NewPipe(nPipes', NEXT_PIPE_X,
                                           pipes'[Len(pipes')].height)
          /\ {pipes'[k].id : k \in DOMAIN pipes'}
                \ {pipes[j].id : j \in DOMAIN pipes} = {nPipes'}
    /\ (score' = score) => (nPipes' = nPipes)

C5_ScoreCountsPassages == [][C5_Step]_vars

\* Two birds are live and the second passage has been scored.
C5_Witness == pc = "head" /\ Len(birds) = 2 /\ score = 2 /\ nPipes = 3

C7_ScoreCap ==
    /\ (pc = "done" /\ Len(birds) > 0) => score > SCORE_CAP
    /\ (score > SCORE_CAP) =>
          /\ score = SCORE_CAP + 1
          /\ pc \in {"bounds", "cap", "done"}

C7_Witness == pc = "done" /\ score = SCORE_CAP + 1 /\ Len(birds) > 0

\* C8: a lone bird that never jumps gains y in every move, leaves the list
\* by the ground check only, and no 40th tick begins, whatever the sprite
\* height.
C8_Step ==
    /\ (pc = "move") => (birds'[1].y > birds[1].y)
    /\ elim'[1] \in {"none", "ground"}
    /\ (elim'[1] = "none") <=> (Len(birds') = 1)
    /\ ticks' < 40

C8_NeverJumpFalls == [][C8_Step]_vars

C8_Witness == elim[1] = "ground" /\ imgH = 0 /\ ticks = 26 /\ pc = "done"

\* C9: a lone bird that jumps after every move leaves the list by the
\* y < 0 check only, no 34th tick begins, and no pipe has come as far as
\* the bird's x by then.
C9_AlwaysJumpLeavesTop ==
    /\ elim[1] \in {"none", "top"}
    /\ (elim[1] = "none") <=> (Len(birds) = 1)
    /\ ticks <= 33
    /\ \A j \in DOMAIN pipes : pipes[j].x > BIRD_X + BIRD_WIDTH
    /\ overlap = {}

C9_Witness == elim[1] = "top" /\ ticks = 33 /\ pc = "done"

\* C10 as stated: for the bird's velocity and every two consecutive tick
\* counts t, t + 1 it has been moved with, the displacement does not
\* decrease from t to t + 1, and once it is 16 it stays 16.
C10_MonotoneAllVelocities ==
    LET v == birds[1].velocity
    IN  \A t \in 1..(birds[1].tick_count - 1) :
           /\ Displacement(v, t + 1) >= Displacement(v, t)
           /\ (Displacement(v, t) = MAX_DISPLACEMENT)
                 => (Displacement(v, t + 1) = MAX_DISPLACEMENT)

\* C10 amended: with velocity 0 the displacement does not decrease from any
\* t >= 1 and is 16 from t = 4 on; with velocity -10.5 it decreases from
\* t = 1 to t = 3, does not decrease from t = 3 on and is 16 from t = 9 on.
C10_MonotoneAfterApex ==
    LET v == birds[1].velocity
    IN  \A t \in 1..(birds[1].tick_count - 1) :
           /\ (v = 0) => Displacement(v, t + 1) >= Displacement(v, t)
           /\ (v = 0 /\ t >= 4) => Displacement(v, t) = MAX_DISPLACEMENT
           /\ (v = JUMP_VELOCITY /\ t < 3) => Displacement(v, t + 1) < Displacement(v, t)
           /\ (v = JUMP_VELOCITY /\ t >= 3) => Displacement(v, t + 1) >= Displacement(v, t)
           /\ (v = JUMP_VELOCITY /\ t >= 9) => Displacement(v, t) = MAX_DISPLACEMENT
           /\ (Displacement(v, t) = MAX_DISPLACEMENT)
                 => (Displacement(v, t + 1) = MAX_DISPLACEMENT)

\* A bird that jumped and then moved eleven times: its displacement is clamped.
C10_Witness ==
    /\ birds[1].velocity = JUMP_VELOCITY
    /\ birds[1].tick_count = 11
    /\ Displacement(birds[1].velocity, birds[1].tick_count) = MAX_DISPLACEMENT

\* C11: a trial of an empty population is only ever at the loop head or
\* ended, with no tick run, score 0, no fitness entry, the first pipe and the
\* ground where they were built; and whenever the loop head finds the lists
\* empty the next step ends the loop (or the process, on a QUIT event) and
\* changes no bird, pipe, fitness, score or tick.
C11_Step ==
    /\ (Len(elim') = 0) =>
          /\ pc' \in {"head", "done", "quit"}
          /\ ticks' = 0
          /\ score' = 0
          /\ fitness' = <<>>
          /\ Len(pipes') = 1
          /\ pipes'[1].x = FIRST_PIPE_X
          /\ ground' = NewGround(GROUND_Y)
    /\ (pc = "head" /\ Len(birds) = 0) =>
          /\ pc' \in {"done", "quit"}
          /\ UNCHANGED <<birds, networks, ge, fitness, pipes, ground, score, ticks>>

C11_EmptyPopulationEnds == [][C11_Step]_vars

C11_Witness == Len(elim) = 0 /\ pc = "done" /\ ticks = 0

\* C12: every pipe in the list has bottom - height = 200, top = height - 640
\* and a height in 50..449; a pipe keeps its height, top and bottom as long
\* as it is in the list.
C12_Step ==
    /\ \A k \in DOMAIN pipes' :
          /\ pipes'[k].bottom - pipes'[k].height = GAP
          /\ pipes'[k].top = pipes'[k].height - PIPE_HEIGHT
          /\ pipes'[k].height \in HeightRange
    /\ \A j \in DOMAIN pipes : \A k \in DOMAIN pipes' :
          (pipes[j].id = pipes'[k].id) =>
              /\ pipes'[k].height = pipes[j].height
              /\ pipes'[k].top = pipes[j].top
              /\ pipes'[k].bottom = pipes[j].bottom

C12_GapConstant == [][C12_Step]_vars

\* The first pipe and a spawned one, both moved, with the two extreme heights.
C12_Witness ==
    /\ Len(pipes) = 2
    /\ pipes[1].height = 50
    /\ pipes[2].height = 449
    /\ pipes[2].x < NEXT_PIPE_X

\* C13: when the controllers are about to be queried, pipes[pipe_index]
\* exists and is the leftmost pipe of the list whose right edge x + 104 is
\* not left of the birds' x.
C13_NearestPipe ==
    (pc = "move") =>
        /\ pipe_index + 1 \in DOMAIN pipes
        /\ pipes[pipe_index + 1].x + PIPE_WIDTH >= BIRD_X
        /\ \A j \in 1..pipe_index : pipes[j].x + PIPE_WIDTH < BIRD_X
        /\ \A i \in DOMAIN birds : birds[i].x = BIRD_X

C13_Witness == pc = "move" /\ pipe_index = 1 /\ score = 2 /\ Len(birds) = 2

\* C14: every trial ends.  A state in which the loop has not exited always
\* has a next step of the loop (the loop head can be taken; the pipe the
\* move phase reads exists; the spawn has a height to draw; the other phases
\* have no condition), each tick takes six steps, and no trial
\* begins more than 96 + 150 * 76 ticks (the first pipe is passed in tick
\* 96, every later one 76 ticks after the one before): so the steps of a
\* trial run out only at the exit.  The score keeps pace with the ticks: at
\* the loop head fewer than 96 + 76 * score ticks have begun.
C14_TrialEnds ==
    /\ pc \in {"head", "move", "scan", "spawn", "bounds", "cap", "done"}
    /\ (pc = "head") => ENABLED LoopHead
    /\ (pc = "move") => (pipe_index + 1 \in DOMAIN pipes)
    /\ (pc = "spawn" /\ add_pipe) => (heights # {})
    /\ ticks <= 96 + 76 * SCORE_CAP
    /\ ticks < horizon
    /\ score <= SCORE_CAP + 1
    /\ (pc = "head") => ticks < 96 + 76 * score

\* A trial ended by the score cap with its bird still in the list, after
\* 96 + 150 * 76 ticks.
C14_Witness ==
    /\ pc = "done"
    /\ Len(birds) = 1
    /\ Len(elim) = 2
    /\ score = SCORE_CAP + 1
    /\ ticks = 96 + 76 * SCORE_CAP

\* C15: no bird enters the lists after construction; a bird that has left
\* the lists stays out with the cause first recorded, and its genome's
\* fitness never changes again; only birds in the list are moved.
C15_Step ==
    /\ Live' \subseteq Live
    /\ \A id \in DOMAIN elim :
          (elim[id] # "none") =>
              /\ elim'[id] = elim[id]
              /\ fitness'[id] = fitness[id]
              /\ id \notin Live'
    /\ \A id \in DOMAIN elim :
          (fitness'[id] # fitness[id]) => (id \in Live)

C15_EliminationFinal == [][C15_Step]_vars

\* The first bird is out, the second is still in, and a passage has been
\* scored since.
C15_Witness ==
    /\ Len(elim) = 2
    /\ elim[1] = "ground"
    /\ Live = {2}
    /\ score = 1
    /\ fitness[1] < fitness[2]

\* C16 as stated: at the loop head with a bird in the list there are one or
\* two pipes, at most one of them not passed, consecutive pipes 375 px apart;
\* a step sets at most one passed flag, and a pipe that leaves the list has
\* been passed.
C16_PipesAt(d) ==
    (pc = "head" /\ Len(birds) > 0) =>
        /\ Len(pipes) \in {1, 2}
        /\ Cardinality({j \in DOMAIN pipes : ~pipes[j].passed}) <= 1
        /\ \A j \in DOMAIN pipes :
              (j + 1 \in DOMAIN pipes) => (pipes[j + 1].x - pipes[j].x = d)

C16_PipesStep ==
    /\ nPassed' <= nPassed + 1
    /\ \A j \in DOMAIN pipes :
          (\A k \in DOMAIN pipes' : pipes'[k].id # pipes[j].id) => pipes[j].passed

C16_Pipes375 == [][C16_PipesAt(375)' /\ C16_PipesStep]_vars

\* C16 amended: the same with consecutive pipes 380 px apart.
C16_Pipes380 == [][C16_PipesAt(380)' /\ C16_PipesStep]_vars

\* Two pipes at the loop head after the second passage, the first pipe gone.
C16_Witness ==
    /\ pc = "head"
    /\ Len(birds) > 0
    /\ Len(pipes) = 2
    /\ pipes[1].id = 2
    /\ pipes[2].x - pipes[1].x = 380

\* C17: the generation counter changes only by one, and only when main() is
\* entered; on entry the score is 0, there is one pipe, not passed, at
\* x = 700, the ground is at its initial offsets, every bird is at (230, 350)
\* with velocity 0 and tick_count 0, and every genome's fitness is 0,
\* whatever the state main() last returned in.
C17_Fresh ==
    /\ pc = "head"
    /\ ticks = 0
    /\ score = 0
    /\ Len(pipes) = 1
    /\ pipes[1].x = FIRST_PIPE_X
    /\ ~pipes[1].passed
    /\ ground = NewGround(GROUND_Y)
    /\ Len(birds) = Len(ge)
    /\ \A i \in DOMAIN birds :
          /\ birds[i].x = BIRD_X
          /\ birds[i].y = BIRD_Y
          /\ birds[i].velocity = 0
          /\ birds[i].tick_count = 0
    /\ \A id \in DOMAIN fitness : fitness[id] = 0

C17_Step ==
    /\ (pc = "done") => (GENERATION' = GENERATION + 1 /\ C17_Fresh')
    /\ (pc # "done") => (GENERATION' = GENERATION)

C17_FreshGeneration == [][C17_Step]_vars

\* The second invocation of main() has just constructed its world for a
\* population of two.
C17_Witness ==
    /\ GENERATION = 2
    /\ C17_Fresh
    /\ Len(birds) = 2
    /\ nPipes = 1

\* C18: the two ground segments are always exactly GROUND_WIDTH apart, and
\* together they cover the window from 0 to WINDOW_WIDTH.
C18_GroundSeamless ==
    LET lo == IF ground.x_start < ground.x_end THEN ground.x_start ELSE ground.x_end
        hi == IF ground.x_start < ground.x_end THEN ground.x_end ELSE ground.x_start
    IN  /\ Abs(ground.x_start - ground.x_end) = GROUND_WIDTH
        /\ lo <= 0
        /\ hi + GROUND_WIDTH >= WINDOW_WIDTH

\* Both segments have wrapped: the first is again the left one, after the
\* second was placed behind it.
C18_Witness ==
    /\ ticks > 2 * (GROUND_WIDTH \div GROUND_VELOCITY)
    /\ ground.x_start < ground.x_end
    /\ ground.x_end - ground.x_start = GROUND_WIDTH

\* C19: a bird's tilt is never below -90 and never above MAX_ROTATION, after
\* any sequence of move() and jump() calls.
C19_TiltInRange ==
    \A i \in DOMAIN birds :
        /\ birds[i].tilt >= MIN_TILT
        /\ birds[i].tilt <= MAX_ROTATION

====
